---- MODULE Spec2Model ----
(***************************************************************************)
(* AeroFlow wind tunnel: the App state (wind settings, uploaded mesh url), *)
(* the Model component (asynchronous STL load, shader uniform), and the    *)
(* Streamlines component (particle pool, per-frame advection and wrap),    *)
(* and the snapshot analysis App requests from the analysis service.       *)
(*                                                                         *)
(* Real numbers are fixed-point integers in units of 1/Scale: a position   *)
(* of 75 is 75 * Scale, Math.random() returns a value in 0 .. Scale - 1    *)
(* (the interval [0, 1)), a direction component of 1 is Scale.             *)
(***************************************************************************)
EXTENDS Integers, Sequences, FiniteSets

VARIABLES
    windSettings,   \* App state: speed, directionX/Y/Z, particleCount
    stlFileUrl,     \* App state: 0 (null) or the object url of the last upload
    loads,          \* urls whose STLLoader.load is in flight
    geometry,       \* Model state: 0 (null) or the url whose geometry is set
    uWindDir,       \* the shader material's uWindDir uniform
    rendered,       \* the surface drawn by the last frame (0: none)
    particles,      \* Streamlines: the particle pool
    instanceCount,  \* Streamlines: the instancedMesh's instance count
    dirUsed,        \* Streamlines: the dir its last frame moved and aligned with
    lastFrame,      \* what the last Streamlines frame did, particle by particle
    callerNotified, \* notifications the callers of Model and App have received
    failedLoads,    \* loads that ended in an error
    frameNo,        \* frames rendered so far
    changes,        \* slider changes so far
    glRef,          \* App's glRef: 0 (null) or 1, the renderer of the Canvas
    isAnalyzing,    \* App state: an analysis is under way
    analysisResult, \* App state: NoResult (null) or the result on display
    pending,        \* analyzeAerodynamics calls in flight
    consoleLog,     \* messages written with console.error
    fragment,       \* fragment shader: the inputs of the fragment being shaded
    fragColor,      \* fragment shader: the colour it wrote to gl_FragColor
    lastOp          \* the operation that led to this state

vars == <<windSettings, stlFileUrl, loads, geometry, uWindDir, rendered,
          particles, instanceCount, dirUsed, lastFrame, callerNotified,
          failedLoads, frameNo, changes, glRef, isAnalyzing, analysisResult,
          pending, consoleLog, fragment, fragColor, lastOp>>

meshVars == <<stlFileUrl, loads, geometry, callerNotified, failedLoads>>
flowVars == <<particles, instanceCount, dirUsed, lastFrame>>
analysisVars == <<glRef, isAnalyzing, analysisResult, pending, consoleLog>>
fragVars == <<fragment, fragColor>>

----------------------------------------------------------------------------
(* Bounds of the model *)

Scale == 1000
MaxCount == 2
MaxUploads == 2
MaxFrames == 2
MaxChanges == 2
NormRange == 4

(* Program constants *)

BOUNDS == 150
JitterMax == 5
SpeedFactor == 5

Axes == {"x", "y", "z"}

\* Math.random(): the two ends of [0, 1)
RandChoices == {0, Scale - 1}

\* the frame delta in seconds: one display refresh, and a full second
DeltaChoices == {Scale \div 60, Scale}

\* slider positions tried: speed 0 .. 50, direction -1 .. 1
SpeedChoices == {0, 20 * Scale}
DirXChoices == {0, Scale \div 10, Scale}
DirYChoices == {-Scale, 0}
CountChoices == 1 .. MaxCount

----------------------------------------------------------------------------
(* Arithmetic *)

Abs(a) == IF a < 0 THEN -a ELSE a

Sign(a) == IF a > 0 THEN 1 ELSE IF a < 0 THEN -1 ELSE 0

\* a / b rounded to the nearest, b > 0
RoundDiv(a, b) == (2 * a + b) \div (2 * b)

RECURSIVE SqrtSearch(_, _, _)
SqrtSearch(n, lo, hi) ==
    IF lo >= hi THEN lo
    ELSE LET mid == (lo + hi + 1) \div 2
         IN  IF mid * mid <= n THEN SqrtSearch(n, mid, hi)
             ELSE SqrtSearch(n, lo, mid - 1)

\* Math.sqrt, rounded to the nearest integer
Sqrt(n) ==
    LET r == SqrtSearch(n, 0, 32 * Scale)
    IN  IF n - r * r > r THEN r + 1 ELSE r

Vec(a, b, c) == [x |-> a, y |-> b, z |-> c]

LengthSq(v) == v.x * v.x + v.y * v.y + v.z * v.z

\* THREE.Vector3.length, in sixteenths of a unit: a float keeps its relative
\* precision for a short vector too
Length16(v) == Sqrt(LengthSq(v) * 256)

\* THREE.Vector3.normalize: divideScalar(length() || 1)
NormalizeBySquare(v) ==
    LET len == RoundDiv(LengthSq(v), Scale)
        d == IF len = 0 THEN Scale ELSE len
    IN  Vec(RoundDiv(v.x * Scale, d), RoundDiv(v.y * Scale, d),
            RoundDiv(v.z * Scale, d))
Normalize(v) ==
    LET len == Length16(v)
        d == IF len = 0 THEN 16 * Scale ELSE len
    IN  Vec(RoundDiv(v.x * Scale * 16, d), RoundDiv(v.y * Scale * 16, d),
            RoundDiv(v.z * Scale * 16, d))

WindVec(ws) == Vec(ws.directionX, ws.directionY, ws.directionZ)

----------------------------------------------------------------------------
(* The fragment shader's colour mapping *)

Color(r, g, b) == [r |-> r, g |-> g, b |-> b]

uColorHigh == Color(Scale, Scale \div 5, 0)
uColorMid == Color(Scale, Scale, 0)
uColorLow == Color(0, Scale \div 2, Scale)

\* the band boundary 0.2
BandEdge == Scale \div 5

\* the amplitudes of flowEffect (0.05) and of the wake's turbulence (0.15)
FlowAmplitude == Scale \div 20
TurbulenceAmplitude == (3 * Scale) \div 20

Clamp(x, lo, hi) == IF x < lo THEN lo ELSE IF x > hi THEN hi ELSE x

\* GLSL smoothstep: t * t * (3 - 2 t) with t = clamp((x - e0) / (e1 - e0), 0, 1)
Smoothstep(edge0, edge1, x) ==
    LET t == Clamp(RoundDiv((x - edge0) * Scale, edge1 - edge0), 0, Scale)
    IN  RoundDiv(RoundDiv(t * t, Scale) * (3 * Scale - 2 * t), Scale)

\* GLSL mix: a * (1 - w) + b * w, component by component
Mix(a, b, w) ==
    Color(RoundDiv(a.r * (Scale - w) + b.r * w, Scale),
          RoundDiv(a.g * (Scale - w) + b.g * w, Scale),
          RoundDiv(a.b * (Scale - w) + b.b * w, Scale))

\* a colour times a float
Times(c, k) ==
    Color(RoundDiv(c.r * k, Scale), RoundDiv(c.g * k, Scale),
          RoundDiv(c.b * k, Scale))

\* the intensity after the wake's turbulence or the impact zone's pulsing
AdjustedIntensity(f) ==
    IF f.intensity < -BandEdge THEN f.intensity + f.turbulence
    ELSE f.intensity + f.flowEffect

HighBand(intensity) ==
    Mix(uColorMid, uColorHigh, Smoothstep(BandEdge, Scale, intensity))

TransitionBand(intensity) ==
    Mix(uColorLow, uColorMid, Smoothstep(-BandEdge, BandEdge, intensity))

WakeBand(flowEffect) == Times(uColorLow, (6 * Scale) \div 10 + flowEffect)

\* the three bands of the colour mapping
ColorMapWideRamp(intensity, flowEffect) ==
    IF intensity > BandEdge
    THEN Mix(uColorMid, uColorHigh, Smoothstep(0, Scale, intensity))
    ELSE IF intensity > -BandEdge THEN TransitionBand(intensity)
    ELSE WakeBand(flowEffect)
ColorMap(intensity, flowEffect) ==
    IF intensity > BandEdge THEN HighBand(intensity)
    ELSE IF intensity > -BandEdge THEN TransitionBand(intensity)
    ELSE WakeBand(flowEffect)

\* Model.useFrame: the direction written to the uniform
ModelDirNoFallback(ws) == Normalize(WindVec(ws))
ModelDir(ws) ==
    LET dir == Normalize(WindVec(ws))
    IN  IF LengthSq(dir) = 0 THEN Vec(Scale, 0, 0) ELSE dir

\* Streamlines.useFrame: the direction of the particle update
StreamDirNoFallback(direction) == Normalize(direction)
StreamDir(direction) ==
    LET dir == Normalize(direction)
    IN  IF LengthSq(dir) = 0 THEN Vec(Scale, 0, 0) ELSE dir

----------------------------------------------------------------------------
(* Streamlines: the particle pool *)

HalfBounds == (BOUNDS * Scale) \div 2

\* (Math.random() - 0.5) * bounds
RandomInBounds(r) == ((2 * r - Scale) * BOUNDS) \div 2

\* Math.random() * 10 - 5
Jitter(r) == r * (2 * JitterMax) - JitterMax * Scale

\* Math.random() * 0.5 + 0.8
RandomSpeedOffset(r) == r \div 2 + (8 * Scale) \div 10

\* the four Math.random() calls of one new particle: x at either end of the
\* range, y, z and the speed offset in the middle
DrawSet == [x : RandChoices, y : {Scale \div 2}, z : {Scale \div 2},
            s : {Scale \div 2}]

\* the useMemo body: count fresh particles
NewParticles(count, draws) ==
    [i \in 1 .. count |->
        [pos |-> Vec(RandomInBounds(draws[i].x), RandomInBounds(draws[i].y),
                     RandomInBounds(draws[i].z)),
         speedOffset |-> RandomSpeedOffset(draws[i].s)]]

\* useMemo(..., [count, bounds]): rebuilt when count changes, kept otherwise
PoolKeepsOnResize(old, oldCount, count, draws) == old
Pool(old, oldCount, count, draws) ==
    IF count = oldCount THEN old ELSE NewParticles(count, draws)

MoveSpeed(speed, speedOffset, delta) ==
    RoundDiv(RoundDiv(speed * speedOffset, Scale) * delta, Scale) * SpeedFactor

Advect(coord, d, moveSpeed) == coord + RoundDiv(d * moveSpeed, Scale)

\* the respawn position of an out-of-bounds coordinate
RespawnDownwind(d, r) ==
    IF Abs(d) > Scale \div 10 THEN Sign(d) * HalfBounds + Jitter(r)
    ELSE RandomInBounds(r)
Respawn(d, r) ==
    IF Abs(d) > Scale \div 10 THEN -Sign(d) * HalfBounds + Jitter(r)
    ELSE RandomInBounds(r)

\* the wrap logic of one axis: the coordinate and the respawns it took
WrapAxisRepeat(coord, d, r) ==
    IF Abs(coord) > HalfBounds
    THEN IF Abs(Respawn(d, r)) > HalfBounds
         THEN [v |-> Respawn(d, Scale - 1 - r), n |-> 2]
         ELSE [v |-> Respawn(d, r), n |-> 1]
    ELSE [v |-> coord, n |-> 0]
WrapAxisWide(coord, d, r) ==
    IF Abs(coord) > HalfBounds
    THEN [v |-> IF Abs(d) > Scale \div 10
                THEN -Sign(d) * HalfBounds + 2 * Jitter(r)
                ELSE RandomInBounds(r),
          n |-> 1]
    ELSE [v |-> coord, n |-> 0]
WrapAxis(coord, d, r) ==
    IF Abs(coord) > HalfBounds
    THEN [v |-> Respawn(d, r), n |-> 1]
    ELSE [v |-> coord, n |-> 0]

\* one particle's turn in the forEach of useFrame
UpdateParticle(p, dir, speed, delta, rnd) ==
    LET moveSpeed == MoveSpeed(speed, p.speedOffset, delta)
        adv == [a \in Axes |-> Advect(p.pos[a], dir[a], moveSpeed)]
        w == [a \in Axes |-> WrapAxis(adv[a], dir[a], rnd[a])]
    IN  [particle |-> [pos |-> [a \in Axes |-> w[a].v],
                       speedOffset |-> p.speedOffset],
         log |-> [moveSpeed |-> moveSpeed, adv |-> adv,
                  respawns |-> [a \in Axes |-> w[a].n]]]

\* the Math.random() calls of one particle's turn: one for each axis that is
\* out of bounds after the move, none (0) for the others
ParticleDraws(p, dir, speed, delta) ==
    LET moveSpeed == MoveSpeed(speed, p.speedOffset, delta)
        draw(a) == IF Abs(Advect(p.pos[a], dir[a], moveSpeed)) > HalfBounds
                   THEN RandChoices ELSE {0}
    IN  [x : draw("x"), y : draw("y"), z : draw("z")]

RECURSIVE FrameDraws(_, _, _, _)
FrameDraws(ps, dir, speed, delta) ==
    IF ps = <<>> THEN {<<>>}
    ELSE {<<d>> \o rest : d \in ParticleDraws(Head(ps), dir, speed, delta),
                          rest \in FrameDraws(Tail(ps), dir, speed, delta)}

----------------------------------------------------------------------------
(* Initial state: App's useState values, no mesh, a fresh pool *)

NoFrame == [delta |-> 0, parts |-> <<>>]

\* analysisResult's null
NoResult == [kind |-> "none", after |-> 0, snapshot |-> 0]

OnLoadGiven == FALSE

\* App's useState: speed 20 along +X; the pool of 2000 particles is scaled
\* down to 1, as the slider's 100 .. 5000 is to 1 .. MaxCount
AppSettings ==
    [speed |-> 20 * Scale, directionX |-> Scale, directionY |-> 0,
     directionZ |-> 0, particleCount |-> 1]

InitScene ==
    /\ stlFileUrl = 0
    /\ loads = {}
    /\ geometry = 0
    /\ uWindDir = Vec(Scale, 0, 0)
    /\ rendered = 0
    /\ \E draws \in [1 .. 1 -> DrawSet] : particles = NewParticles(1, draws)
    /\ instanceCount = 1
    /\ dirUsed = Vec(Scale, 0, 0)
    /\ lastFrame = NoFrame
    /\ callerNotified = {}
    /\ failedLoads = {}
    /\ frameNo = 0
    /\ changes = 0
    /\ glRef = 0
    /\ isAnalyzing = FALSE
    /\ analysisResult = NoResult
    /\ pending = {}
    /\ consoleLog = {}
    /\ fragColor = Color(0, 0, 0)
    /\ lastOp = "init"

NoFragment == [intensity |-> 0, flowEffect |-> 0, turbulence |-> 0]

Init == windSettings = AppSettings /\ fragment = NoFragment /\ InitScene

----------------------------------------------------------------------------
(* Operations *)

\* handleFileUpload, and the Model effect the new url starts
Upload ==
    /\ stlFileUrl < MaxUploads
    /\ stlFileUrl' = stlFileUrl + 1
    /\ loads' = loads \cup {stlFileUrl + 1}
    /\ analysisResult' = NoResult
    /\ UNCHANGED fragVars
    /\ lastOp' = "upload"
    /\ UNCHANGED <<windSettings, geometry, uWindDir, rendered, flowVars,
                   callerNotified, failedLoads, frameNo, changes, glRef,
                   isAnalyzing, pending, consoleLog>>

\* the loader's onLoad callback
LoadComplete(u) ==
    /\ u \in loads
    /\ loads' = loads \ {u}
    /\ geometry' = u
    /\ callerNotified' = IF OnLoadGiven THEN callerNotified \cup {<<"loaded", u>>}
                         ELSE callerNotified
    /\ UNCHANGED fragVars
    /\ lastOp' = "load"
    /\ UNCHANGED <<windSettings, stlFileUrl, uWindDir, rendered, flowVars,
                   failedLoads, frameNo, changes>>
    /\ UNCHANGED analysisVars

\* the load ends in an error: no onError callback was given
LoadFailClears(u) ==
    /\ u \in loads
    /\ loads' = loads \ {u}
    /\ geometry' = 0
    /\ failedLoads' = failedLoads \cup {u}
    /\ UNCHANGED fragVars
    /\ lastOp' = "fail"
    /\ UNCHANGED <<windSettings, stlFileUrl, uWindDir, rendered, flowVars,
                   callerNotified, frameNo, changes>>
    /\ UNCHANGED analysisVars
LoadFail(u) ==
    /\ u \in loads
    /\ loads' = loads \ {u}
    /\ failedLoads' = failedLoads \cup {u}
    /\ UNCHANGED fragVars
    /\ lastOp' = "fail"
    /\ UNCHANGED <<windSettings, stlFileUrl, geometry, uWindDir, rendered,
                   flowVars, callerNotified, frameNo, changes>>
    /\ UNCHANGED analysisVars

\* handleSliderChange, and the re-render of Streamlines with the new props
SliderChange(key, value, draws) ==
    /\ changes < MaxChanges
    /\ changes' = changes + 1
    /\ windSettings[key] # value
    /\ windSettings' = [windSettings EXCEPT ![key] = value]
    /\ particles' = Pool(particles, windSettings.particleCount,
                         windSettings'.particleCount, draws)
    /\ instanceCount' = windSettings'.particleCount
    /\ UNCHANGED fragVars
    /\ lastOp' = "slider"
    /\ UNCHANGED <<meshVars, uWindDir, rendered, dirUsed, lastFrame, frameNo>>
    /\ UNCHANGED analysisVars

SpeedChange == \E value \in SpeedChoices : SliderChange("speed", value, <<>>)

DirectionChange ==
    \/ \E value \in DirXChoices : SliderChange("directionX", value, <<>>)
    \/ \E value \in DirYChoices : SliderChange("directionY", value, <<>>)

CountChange ==
    \E value \in CountChoices :
        \E draws \in [1 .. value -> DrawSet] :
            SliderChange("particleCount", value, draws)

\* the Canvas is created: onCreated hands its renderer to App's setGl
CanvasCreated ==
    /\ glRef = 0
    /\ glRef' = 1
    /\ UNCHANGED fragVars
    /\ lastOp' = "created"
    /\ UNCHANGED <<windSettings, meshVars, uWindDir, rendered, flowVars, frameNo,
                   changes, isAnalyzing, analysisResult, pending, consoleLog>>

\* one turn of the render loop: Model.useFrame, Streamlines.useFrame, the draw
Frame(delta, rnd) ==
    /\ glRef # 0
    /\ frameNo < MaxFrames
    /\ LET dir == StreamDir(WindVec(windSettings))
           n == Len(particles)
           upd == [i \in 1 .. n |->
                      UpdateParticle(particles[i], dir, windSettings.speed,
                                     delta, rnd[i])]
       IN  /\ particles' = [i \in 1 .. n |-> upd[i].particle]
           /\ lastFrame' = [delta |-> delta, parts |-> [i \in 1 .. n |-> upd[i].log]]
           /\ dirUsed' = dir
    /\ uWindDir' = IF geometry # 0 THEN ModelDir(windSettings) ELSE uWindDir
    /\ rendered' = geometry
    /\ frameNo' = frameNo + 1
    /\ UNCHANGED fragVars
    /\ lastOp' = "frame"
    /\ UNCHANGED <<windSettings, meshVars, instanceCount, changes>>
    /\ UNCHANGED analysisVars

RenderLoop ==
    \E delta \in DeltaChoices :
        \E rnd \in FrameDraws(particles, StreamDir(WindVec(windSettings)),
                               windSettings.speed, delta) :
            Frame(delta, rnd)

\* handleAnalyze with no renderer in glRef: logs and returns
AnalyzeNotReady ==
    /\ glRef = 0
    /\ consoleLog' = consoleLog \cup {"Canvas context not found"}
    /\ UNCHANGED fragVars
    /\ lastOp' = "notReady"
    /\ UNCHANGED <<windSettings, meshVars, uWindDir, rendered, flowVars, frameNo,
                   changes, glRef, isAnalyzing, analysisResult, pending>>

\* handleAnalyze up to its await: the snapshot of the canvas is what the last
\* frame drew; `after` records the upload the request was issued after
AnalyzeStart ==
    /\ glRef # 0
    /\ isAnalyzing' = TRUE
    /\ analysisResult' = NoResult
    /\ pending' = pending \cup {[after |-> stlFileUrl, snapshot |-> rendered,
                                  windSpeed |-> windSettings.speed]}
    /\ UNCHANGED fragVars
    /\ lastOp' = "analyze"
    /\ UNCHANGED <<windSettings, meshVars, uWindDir, rendered, flowVars, frameNo,
                   changes, glRef, consoleLog>>

\* the analyze button's onClick; the button is disabled while isAnalyzing
Analyze ==
    /\ ~isAnalyzing
    /\ (AnalyzeNotReady \/ AnalyzeStart)

\* handleAnalyze after its await: the service's text, or the Error it threw
AnalysisSettled(req, kind) ==
    /\ req \in pending
    /\ pending' = pending \ {req}
    /\ analysisResult' = [kind |-> kind, after |-> req.after,
                          snapshot |-> req.snapshot]
    /\ isAnalyzing' = FALSE
    /\ UNCHANGED fragVars
    /\ lastOp' = kind
    /\ UNCHANGED <<windSettings, meshVars, uWindDir, rendered, flowVars, frameNo,
                   changes, glRef, consoleLog>>

AnalysisDone == \E req \in pending : AnalysisSettled(req, "text")
AnalysisFail == \E req \in pending : AnalysisSettled(req, "error")

MeshLoad ==
    \/ Upload
    \/ \E u \in 1 .. MaxUploads : LoadComplete(u)
    \/ \E u \in 1 .. MaxUploads : LoadFail(u)

Analysis == Analyze \/ AnalysisDone \/ AnalysisFail

Next ==
    \/ CanvasCreated \/ MeshLoad \/ SpeedChange \/ DirectionChange \/ CountChange
    \/ RenderLoop \/ Analysis

\* the whole program
Spec == Init /\ [][Next]_vars

\* the wind tunnel with no mesh uploaded: the sliders and the render loop
NextFlow ==
    CanvasCreated \/ SpeedChange \/ DirectionChange \/ CountChange \/ RenderLoop
SpecFlow == Init /\ [][NextFlow]_vars

\* mesh uploads and their loads under the render loop: the sliders left alone
NextMesh == CanvasCreated \/ MeshLoad \/ RenderLoop
SpecMesh == Init /\ [][NextMesh]_vars

\* a mesh shaded under a changing wind direction: every load succeeds
NextShade ==
    \/ CanvasCreated
    \/ Upload
    \/ \E u \in 1 .. MaxUploads : LoadComplete(u)
    \/ DirectionChange
    \/ RenderLoop
SpecShade == Init /\ [][NextShade]_vars

\* snapshot analyses of the scene while meshes are uploaded and drawn
NextAnalyze ==
    \/ CanvasCreated
    \/ Upload
    \/ \E u \in 1 .. MaxUploads : LoadComplete(u)
    \/ RenderLoop
    \/ Analysis
SpecAnalyze == Init /\ [][NextAnalyze]_vars

\* the normalization alone, over a grid of wind directions
NormInputs == {(k * Scale) \div NormRange : k \in -NormRange .. NormRange}

InitNormalize ==
    /\ \E dx \in NormInputs, dy \in NormInputs, dz \in NormInputs :
           windSettings = [AppSettings EXCEPT !.directionX = dx,
                                              !.directionY = dy,
                                              !.directionZ = dz]
    /\ fragment = NoFragment
    /\ InitScene

\* the first lines of Model.useFrame and of Streamlines.useFrame
NormalizeDirections ==
    /\ lastOp = "init"
    /\ uWindDir' = ModelDir(windSettings)
    /\ dirUsed' = StreamDir(WindVec(windSettings))
    /\ UNCHANGED fragVars
    /\ lastOp' = "normalize"
    /\ UNCHANGED <<windSettings, meshVars, rendered, particles, instanceCount,
                   lastFrame, frameNo, changes>>
    /\ UNCHANGED analysisVars

SpecNormalize == InitNormalize /\ [][NormalizeDirections]_vars

\* the fragment shader on one fragment: the dot product of two unit vectors,
\* flowEffect and turbulence at the ends and the middle of their ranges
IntensityInputs == -Scale .. Scale
FlowInputs == {-FlowAmplitude, 0, FlowAmplitude}
TurbulenceInputs == {-TurbulenceAmplitude, 0, TurbulenceAmplitude}

InitFragment ==
    /\ windSettings = AppSettings
    /\ fragment \in [intensity : IntensityInputs, flowEffect : FlowInputs,
                      turbulence : TurbulenceInputs]
    /\ InitScene

\* main() of the fragment shader, from the intensity on
ShadeFragment ==
    /\ lastOp = "init"
    /\ fragColor' = ColorMap(AdjustedIntensity(fragment), fragment.flowEffect)
    /\ lastOp' = "shade"
    /\ UNCHANGED <<windSettings, meshVars, uWindDir, rendered, flowVars, frameNo,
                   changes, analysisVars, fragment>>

SpecFragment == InitFragment /\ [][ShadeFragment]_vars

----------------------------------------------------------------------------
(* Mesh loading *)

\* C1: a load that completes after a newer upload was issued is discarded:
\* it never becomes the active surface, whatever the completion order.
C1_StaleLoadDiscarded ==
    [][\A u \in 1 .. MaxUploads :
          (u \in loads /\ u \notin loads' /\ u # stlFileUrl) => geometry' = geometry]_vars

\* C2: from the moment an upload is issued until its load completes, the
\* active surface does not change and every frame draws it.
C2_SurfaceHeldWhileLoading ==
    [][(stlFileUrl \in loads /\ stlFileUrl' \in loads')
          => /\ geometry' = geometry
             /\ (lastOp' = "frame" => rendered' = geometry)]_vars

\* C3: a failed load changes nothing of the scene: the surface, the uniform,
\* the last drawn frame, the particle pool and the frame count are as before
\* the failure.
C3_FailureLeavesScene ==
    [][failedLoads' # failedLoads
          => /\ geometry' = geometry
             /\ rendered' = rendered
             /\ uWindDir' = uWindDir
             /\ particles' = particles
             /\ frameNo' = frameNo
             /\ stlFileUrl' = stlFileUrl]_vars

\* a frame draws the surface loaded earlier, after a later upload's load failed
C3_Witness ==
    /\ lastOp = "frame"
    /\ failedLoads = {2}
    /\ geometry = 1
    /\ rendered = 1

\* C4: every failed load has been reported to the caller as a LoadError.
C4_FailureReported ==
    \A u \in failedLoads : <<"LoadError", u>> \in callerNotified

----------------------------------------------------------------------------
(* Streamlines *)

IsFrame == lastOp = "frame"

Calm == windSettings.speed = 0 /\ WindVec(windSettings) = Vec(0, 0, 0)

\* C5: the pool holds exactly particleCount particles, which is the instance
\* count of the instanced mesh and the number of matrices a frame writes.
C5_PoolSizeIsCount ==
    /\ Len(particles) = windSettings.particleCount
    /\ instanceCount = windSettings.particleCount
    /\ IsFrame => Len(lastFrame.parts) = windSettings.particleCount

\* a frame of a pool that a count change has rebuilt at the largest size
C5_Witness ==
    /\ IsFrame
    /\ changes > 0
    /\ windSettings.particleCount = MaxCount
    /\ Len(particles) = MaxCount

\* C6: after a frame, every coordinate respawned in it lies within
\* JitterMax of the bounds volume.
C6_RespawnWithinJitter ==
    IsFrame =>
        \A i \in 1 .. Len(particles) : \A a \in Axes :
            lastFrame.parts[i].respawns[a] > 0
                => Abs(particles[i].pos[a]) <= HalfBounds + JitterMax * Scale

\* a coordinate respawned at the far end of the jitter margin
C6_Witness ==
    /\ IsFrame
    /\ \E i \in 1 .. Len(particles) : \E a \in Axes :
           /\ lastFrame.parts[i].respawns[a] > 0
           /\ Abs(particles[i].pos[a]) = HalfBounds + JitterMax * Scale

\* C7: in a frame, a coordinate beyond bounds/2 after the move is respawned
\* exactly once, also when the respawn leaves it beyond bounds/2, and a
\* coordinate within bounds is not respawned.
C7_OneRespawnPerAxis ==
    IsFrame =>
        \A i \in 1 .. Len(particles) : \A a \in Axes :
            lastFrame.parts[i].respawns[a]
                = IF Abs(lastFrame.parts[i].adv[a]) > HalfBounds THEN 1 ELSE 0

\* a coordinate respawned once into the jitter margin, beside one left alone
C7_Witness ==
    /\ IsFrame
    /\ \E i \in 1 .. Len(particles) : \E a \in Axes, b \in Axes :
           /\ lastFrame.parts[i].respawns[a] = 1
           /\ Abs(particles[i].pos[a]) > HalfBounds
           /\ lastFrame.parts[i].respawns[b] = 0

\* C8 as stated: a frame under speed 0 and direction (0,0,0) moves along
\* (1,0,0) at moveSpeed 0, leaves every particle within bounds and respawns
\* nothing.
C8_CalmNeverRespawns ==
    (IsFrame /\ Calm) =>
        /\ dirUsed = Vec(Scale, 0, 0)
        /\ \A i \in 1 .. Len(particles) :
               /\ lastFrame.parts[i].moveSpeed = 0
               /\ \A a \in Axes :
                      /\ Abs(particles[i].pos[a]) <= HalfBounds
                      /\ lastFrame.parts[i].respawns[a] = 0

\* C8 amended: a frame under speed 0 and direction (0,0,0) moves along
\* (1,0,0) at moveSpeed 0, and every coordinate that is within bounds stays
\* where it is and is not respawned.
C8_CalmKeepsInBounds ==
    [][(Calm /\ lastOp' = "frame") =>
          /\ dirUsed' = Vec(Scale, 0, 0)
          /\ \A i \in 1 .. Len(particles) :
                 /\ lastFrame'.parts[i].moveSpeed = 0
                 /\ \A a \in Axes :
                        Abs(particles[i].pos[a]) <= HalfBounds
                            => /\ particles'[i].pos[a] = particles[i].pos[a]
                               /\ lastFrame'.parts[i].respawns[a] = 0]_vars

\* the last frame, taken under speed 0 and direction (0,0,0): the pool within
\* bounds, nothing respawned
C8_Witness ==
    /\ IsFrame
    /\ Calm
    /\ frameNo = MaxFrames
    /\ \A i \in 1 .. Len(particles) : \A a \in Axes :
           /\ Abs(particles[i].pos[a]) <= HalfBounds
           /\ lastFrame.parts[i].respawns[a] = 0

----------------------------------------------------------------------------
(* Wind direction *)

UnitTolerance == 2 * Scale

\* length 1, to the rounding of the arithmetic
IsUnit(v) == Abs(LengthSq(v) - Scale * Scale) <= UnitTolerance

\* equal to one unit of the arithmetic on every axis
Close(v, w) == \A a \in Axes : Abs(v[a] - w[a]) <= 1

\* C9: the normalization maps (0,0,0) to (1,0,0) and every other vector to a
\* unit vector, normalizing its result again returns it, and the directions
\* of the uniform and of the particle update are unit vectors.
C9_NormalizeUnitIdempotent ==
    lastOp = "normalize" =>
        /\ WindVec(windSettings) = Vec(0, 0, 0)
              => uWindDir = Vec(Scale, 0, 0) /\ dirUsed = Vec(Scale, 0, 0)
        /\ IsUnit(Normalize(WindVec(windSettings)))
              \/ WindVec(windSettings) = Vec(0, 0, 0)
        /\ IsUnit(uWindDir) /\ IsUnit(dirUsed)
        /\ Close(Normalize(uWindDir), uWindDir)
        /\ Close(Normalize(dirUsed), dirUsed)

\* a direction off the axes and of length other than 1, normalized
C9_Witness ==
    /\ lastOp = "normalize"
    /\ windSettings.directionX # 0 /\ windSettings.directionY # 0
    /\ windSettings.directionZ # 0
    /\ ~IsUnit(WindVec(windSettings))
    /\ IsUnit(dirUsed)
    /\ dirUsed.x # 0 /\ dirUsed.y # 0 /\ dirUsed.z # 0

\* C10: after every frame that draws a surface, the uniform holds the
\* direction the particle update of that frame used.
C10_UniformIsParticleDir ==
    (IsFrame /\ rendered # 0) => uWindDir = dirUsed

\* a frame that draws a surface right after the direction became (0,0,0)
C10_Witness ==
    /\ IsFrame
    /\ rendered # 0
    /\ changes > 0
    /\ WindVec(windSettings) = Vec(0, 0, 0)
    /\ uWindDir = Vec(Scale, 0, 0)
    /\ dirUsed = uWindDir

\* C13: respawn is decided axis by axis and touches only the axis that is out
\* of bounds after the move: where the wind component on that axis has
\* magnitude > 0.1 the coordinate is set to -sign(dir[axis]) * bounds/2 plus a
\* jitter in [-5, 5], otherwise to a value in [-bounds/2, bounds/2]; an axis
\* within bounds keeps the coordinate the advection gave it.
C13_RespawnPerAxis ==
    IsFrame =>
        \A i \in 1 .. Len(particles) : \A a \in Axes :
            LET adv == lastFrame.parts[i].adv[a]
                pos == particles[i].pos[a]
                d == dirUsed[a]
            IN  IF Abs(adv) > HalfBounds
                THEN IF Abs(d) > Scale \div 10
                     THEN Abs(pos + Sign(d) * HalfBounds) <= JitterMax * Scale
                     ELSE Abs(pos) <= HalfBounds
                ELSE pos = adv

\* wind along +x: a particle past x = 75 is back within 5 of x = -75, its y
\* and z as the advection left them
C13_Witness ==
    /\ IsFrame
    /\ dirUsed = Vec(Scale, 0, 0)
    /\ \E i \in 1 .. Len(particles) :
           /\ lastFrame.parts[i].adv.x > HalfBounds
           /\ particles[i].pos.x >= -HalfBounds - JitterMax * Scale
           /\ particles[i].pos.x <= -HalfBounds + JitterMax * Scale
           /\ particles[i].pos.y = lastFrame.parts[i].adv.y
           /\ particles[i].pos.z = lastFrame.parts[i].adv.z

\* a coordinate out of bounds on an axis the wind hardly blows along: it is
\* respawned anywhere in the volume
C13_WitnessCrosswind ==
    /\ IsFrame
    /\ \E i \in 1 .. Len(particles) : \E a \in Axes :
           /\ Abs(lastFrame.parts[i].adv[a]) > HalfBounds
           /\ Abs(dirUsed[a]) <= Scale \div 10
           /\ Abs(particles[i].pos[a]) <= HalfBounds

----------------------------------------------------------------------------
(* Snapshot analysis *)

\* C11: a snapshot/analysis request issued while the render surface is not yet
\* initialized is surfaced to the caller as a "not ready" signal, and starts
\* no analysis: isAnalyzing stays false, the analysis result is unchanged and
\* no call to the analysis service is made
C11_NotReadySurfaced ==
    [][(glRef = 0 /\ lastOp' = "notReady")
          => /\ <<"notReady">> \in callerNotified'
             /\ isAnalyzing' = FALSE
             /\ analysisResult' = analysisResult
             /\ pending' = pending]_vars

\* C11, the part the code keeps: a request without a render surface starts no
\* analysis
C11_NotReadyStartsNothing ==
    [][(glRef = 0 /\ lastOp' = "notReady")
          => /\ isAnalyzing' = FALSE
             /\ analysisResult' = analysisResult
             /\ pending' = pending]_vars

----------------------------------------------------------------------------
(* Colour mapping *)

IsShaded == lastOp = "shade"

\* the largest difference of two colours' components
ColorDist(c, d) ==
    LET m(a, b) == IF a > b THEN a ELSE b
    IN  m(m(Abs(c.r - d.r), Abs(c.g - d.g)), Abs(c.b - d.b))

\* what one step of 1/Scale in intensity may change in a continuous mapping
ContinuityTol == Scale \div 100

\* C12: the three-band colour mapping is continuous at the band boundaries:
\* at adjusted intensity 0.2 the Low->Mid ramp and the Mid->High ramp both
\* yield exactly Mid; each ramp is 0 at its lower bound and 1 at its upper
\* bound; the only discontinuity is at -0.2, where the transition band tends
\* to Low and the wake band yields Low * (0.6 + flowEffect)
C12_ColorBandsContinuous ==
    IsShaded =>
        LET i == AdjustedIntensity(fragment)
            flow == fragment.flowEffect
        IN  /\ i = BandEdge => /\ HighBand(i) = uColorMid
                               /\ TransitionBand(i) = uColorMid
                               /\ fragColor = uColorMid
            /\ i <= -BandEdge => Smoothstep(-BandEdge, BandEdge, i) = 0
            /\ i >= BandEdge => Smoothstep(-BandEdge, BandEdge, i) = Scale
            /\ i <= BandEdge => Smoothstep(BandEdge, Scale, i) = 0
            /\ i >= Scale => Smoothstep(BandEdge, Scale, i) = Scale
            /\ i # -BandEdge =>
                   ColorDist(ColorMap(i + 1, flow), fragColor) <= ContinuityTol
            /\ i = -BandEdge =>
                   /\ TransitionBand(i) = uColorLow
                   /\ fragColor = Times(uColorLow, (6 * Scale) \div 10 + flow)
                   /\ ColorDist(ColorMap(i + 1, flow), fragColor) > ContinuityTol

\* a fragment at the boundary 0.2, brought there by the flow pulsing
C12_Witness ==
    /\ IsShaded
    /\ fragment.flowEffect # 0
    /\ AdjustedIntensity(fragment) = BandEdge
    /\ fragColor = uColorMid

\* a fragment at the boundary -0.2, where the mapping jumps
C12_WitnessWake ==
    /\ IsShaded
    /\ AdjustedIntensity(fragment) = -BandEdge
    /\ fragColor = Times(uColorLow, (6 * Scale) \div 10 + fragment.flowEffect)

\* C14: a file upload clears the previous analysis: a result on display comes
\* from an analysis that was started after the last upload, also when the
\* upload happened while an analysis request was still in flight
C14_UploadClearsAnalysis ==
    analysisResult # NoResult => analysisResult.after = stlFileUrl

====
